---- MODULE Spec2Model ----
(***************************************************************************)
(* Checkpoint save/load of the emulator state (src/runtime/checkpoint.hpp) *)
(* The blob is modelled byte for byte; 64-bit quantities read from a blob  *)
(* are kept as 8 little-endian bytes wherever their full width matters.    *)
(***************************************************************************)
EXTENDS Integers, Sequences, FiniteSets, TLC

(***************************************************************************)
(* Bounds of the model.                                                    *)
(***************************************************************************)
\* number of 8-byte machine words in one sparse window (8192 in the source:
\* CHUNK_SIZE / 8); the window keeps its structure, only its length is scaled
ChunkWords == 1
\* length of the trailing partial window of the arenas that have one
TailLen == 3
\* sizeof(syscalls::g_sched): the scheduler block is an opaque byte block
SchedSize == 4
\* number of distinct machine states the guest can be driven into
NumProfiles == 3
\* number of guest pages whose attributes are tracked
NumPages == 3

(***************************************************************************)
(* Program constants.                                                      *)
(***************************************************************************)
MAGIC == <<70, 82, 73, 83, 67, 89, 67, 75>>
VERSION == 2
QWORD == 8
CHUNK_SIZE == QWORD * ChunkWords
SENTINEL_ADDR == <<255, 255, 255, 255, 255, 255, 255, 255>>
NumRegs == 32

(***************************************************************************)
(* Raw little-endian encoding of native integers (emit_val / Reader::read) *)
(***************************************************************************)
RECURSIVE LE(_, _)
LE(v, n) == IF n = 0 THEN << >> ELSE <<v % 256>> \o LE(v \div 256, n - 1)

RECURSIVE FromLE(_)
FromLE(b) == IF b = << >> THEN 0 ELSE Head(b) + 256 * FromLE(Tail(b))

Bool8(f) == IF f THEN <<1>> ELSE <<0>>

Zeros(n) == [i \in 1..n |-> 0]

RECURSIVE Flatten(_)
Flatten(ss) == IF ss = << >> THEN << >> ELSE Head(ss) \o Flatten(Tail(ss))

(***************************************************************************)
(* 64-bit unsigned arithmetic on 8 little-endian bytes (uint64_t).         *)
(***************************************************************************)
RECURSIVE Carry(_, _, _)
Carry(a, b, i) == IF i = 0 THEN 0 ELSE (a[i] + b[i] + Carry(a, b, i - 1)) \div 256

Add64(a, b) == [i \in 1..8 |-> (a[i] + b[i] + Carry(a, b, i - 1)) % 256]

RECURSIVE GtFrom(_, _, _)
GtFrom(a, b, i) ==
    IF i = 0 THEN FALSE
    ELSE IF a[i] # b[i] THEN a[i] > b[i]
    ELSE GtFrom(a, b, i - 1)

Gt64(a, b) == GtFrom(a, b, 8)

Ge64(a, b) == ~Gt64(b, a)

\* the mathematical sum of the two values does not fit 64 bits
Wraps64(a, b) == Carry(a, b, 8) = 1

(***************************************************************************)
(* Enumeration of a container.  The maps of the emulated kernel and the    *)
(* page table are hash containers: their iteration order is not fixed.     *)
(***************************************************************************)
EnumOrders == {"asc", "desc"}

RECURSIVE Enum(_, _)
Enum(S, ord) ==
    IF S = {} THEN << >>
    ELSE LET x == IF ord = "asc"
                  THEN CHOOSE y \in S : \A z \in S : y <= z
                  ELSE CHOOSE y \in S : \A z \in S : y >= z
         IN <<x>> \o Enum(S \ {x}, ord)

Put(f, k, v) == [x \in DOMAIN f \cup {k} |-> IF x = k THEN v ELSE f[x]]

(***************************************************************************)
(* Machine states the guest can be driven into.  Everything outside this   *)
(* repository (the instruction interpreter, the system-call layer) only    *)
(* shows here as the live state it leaves behind.                          *)
(***************************************************************************)
ArenaSizes == {TailLen, 2 * CHUNK_SIZE, 2 * CHUNK_SIZE + TailLen}

Profiles == 1..NumProfiles

PageNos == 0..(NumPages - 1)

Dirty(k, i, size) ==
    CASE k = 1 -> FALSE
      [] k = 2 -> i < 4
      [] k = 3 -> i >= CHUNK_SIZE
      [] OTHER -> (i % CHUNK_SIZE = CHUNK_SIZE - 1) \/ (i = size - 1)

ProfileArena(k, size) ==
    [i \in 1..size |-> IF Dirty(k, i - 1, size) THEN ((i + k) % 255) + 1 ELSE 0]

ProfileCtx(k) ==
    [ exec_base |-> 1000 * k + 1, exec_rw_start |-> 1000 * k + 2,
      exec_rw_end |-> 1000 * k + 3, interp_base |-> 1000 * k + 4,
      interp_rw_start |-> 1000 * k + 5, interp_rw_end |-> 1000 * k + 6,
      interp_entry |-> 1000 * k + 7, original_stack_top |-> 1000 * k + 8,
      heap_start |-> 1000 * k + 9, heap_size |-> 1000 * k + 10,
      brk_base |-> 1000 * k + 11, brk_current |-> 1000 * k + 12,
      brk_overridden |-> (k % 2 = 0), dynamic |-> (k % 2 = 1) ]

ProfileEpoll(k) ==
    [e \in {10 + j : j \in 1..(k - 1)} |->
        [fd \in {e + i : i \in 1..((e + k) % 3)} |->
            [events |-> 16 * k + fd, data |-> 70000 * k + fd]]]

ProfileEventfd(k) ==
    [fd \in {20 + j : j \in 1..(k % 3)} |-> 100000 * k + fd]

ExecPagesOf(pages) == {pn \in DOMAIN pages : pages[pn].exec}

ProfilePages(k) ==
    [pn \in PageNos |->
        [read |-> TRUE, write |-> ((pn + k) % 2 = 1), exec |-> ((pn + k) % 3 # 0)]]

Profile(k, size) ==
    [ pc |-> 4096 * k + 4,
      fcsr |-> 32 * k + 1,
      regs |-> [i \in 1..NumRegs |-> 300 * k + i],
      fregs |-> [i \in 1..NumRegs |-> 300 * k + 100 + i],
      mmap_address |-> 65536 * k + 8,
      ctx |-> ProfileCtx(k),
      g_sched |-> [i \in 1..SchedSize |-> (40 * k + i) % 256],
      g_next_pid |-> 2 + k,
      g_next_epoll_fd |-> 1000 + k,
      g_epoll_instances |-> ProfileEpoll(k),
      g_eventfd_counters |-> ProfileEventfd(k),
      pages |-> ProfilePages(k),
      arena |-> ProfileArena(k, size),
      exec_segments |-> ExecPagesOf(ProfilePages(k)),
      g_waiting_for_stdin |-> (k % 2 = 0) ]

(***************************************************************************)
(* save_checkpoint: the sections of the blob, in the order they are        *)
(* emitted.                                                                *)
(***************************************************************************)
SaveHeader == MAGIC \o LE(VERSION, 4) \o LE(0, 4)

SaveCpu(m) ==
    LE(m.pc, 8) \o LE(m.fcsr, 4) \o LE(0, 4)
    \o Flatten([i \in 1..NumRegs |-> LE(m.regs[i], 8)])
    \o Flatten([i \in 1..NumRegs |-> LE(m.fregs[i], 8)])

SaveMemory(m) ==
    LE(m.mmap_address, 8) \o LE(m.ctx.brk_base, 8) \o LE(m.ctx.brk_current, 8)

\* the exec-context block without its trailing pad
SaveExecCtx_nopad(m) ==
    LE(m.ctx.exec_base, 8) \o LE(m.ctx.exec_rw_start, 8) \o LE(m.ctx.exec_rw_end, 8)
    \o LE(m.ctx.interp_base, 8) \o LE(m.ctx.interp_rw_start, 8)
    \o LE(m.ctx.interp_rw_end, 8) \o LE(m.ctx.interp_entry, 8)
    \o LE(m.ctx.original_stack_top, 8) \o LE(m.ctx.heap_start, 8)
    \o LE(m.ctx.heap_size, 8)
    \o Bool8(m.ctx.brk_overridden) \o Bool8(m.ctx.dynamic)

SaveExecCtx(m) ==
    LE(m.ctx.exec_base, 8) \o LE(m.ctx.exec_rw_start, 8) \o LE(m.ctx.exec_rw_end, 8)
    \o LE(m.ctx.interp_base, 8) \o LE(m.ctx.interp_rw_start, 8)
    \o LE(m.ctx.interp_rw_end, 8) \o LE(m.ctx.interp_entry, 8)
    \o LE(m.ctx.original_stack_top, 8) \o LE(m.ctx.heap_start, 8)
    \o LE(m.ctx.heap_size, 8)
    \o Bool8(m.ctx.brk_overridden) \o Bool8(m.ctx.dynamic) \o Zeros(6)

SaveSched(m) == m.g_sched \o LE(m.g_next_pid, 4) \o LE(m.g_next_epoll_fd, 4)

SaveInterests(inst, ord) ==
    LET fds == Enum(DOMAIN inst, ord)
    IN  LE(Len(fds), 4)
        \o Flatten([j \in 1..Len(fds) |->
              LE(fds[j], 4) \o LE(inst[fds[j]].events, 4) \o LE(inst[fds[j]].data, 8)])

SaveEpoll(m, ord) ==
    LET eps == Enum(DOMAIN m.g_epoll_instances, ord)
    IN  LE(Len(eps), 4)
        \o Flatten([j \in 1..Len(eps) |->
              LE(eps[j], 4) \o SaveInterests(m.g_epoll_instances[eps[j]], ord)])

SaveEventfd(m, ord) ==
    LET fds == Enum(DOMAIN m.g_eventfd_counters, ord)
    IN  LE(Len(fds), 4)
        \o Flatten([j \in 1..Len(fds) |->
              LE(fds[j], 4) \o LE(m.g_eventfd_counters[fds[j]], 8)])

SaveExecPages(m, ord) ==
    LET pns == Enum(ExecPagesOf(m.pages), ord)
    IN  LE(Len(pns), 8) \o Flatten([j \in 1..Len(pns) |-> LE(pns[j], 8)])

\* the zero test of a full window reads it as machine words
ChunkAllZero(arena, offset) ==
    \A q \in 0..((CHUNK_SIZE \div QWORD) - 1) :
        SubSeq(arena, offset + QWORD * q + 1, offset + QWORD * q + QWORD) = Zeros(QWORD)

RECURSIVE SaveFullChunks(_, _)
SaveFullChunks(arena, offset) ==
    IF offset + CHUNK_SIZE <= Len(arena)
    THEN (IF ChunkAllZero(arena, offset) THEN << >>
          ELSE LE(offset, 8) \o LE(CHUNK_SIZE, 8)
               \o SubSeq(arena, offset + 1, offset + CHUNK_SIZE))
         \o SaveFullChunks(arena, offset + CHUNK_SIZE)
    ELSE << >>

\* a save that forgets the trailing partial window
SaveTail_dropped(arena) == << >>

\* a save that writes the partial window with the length of a full one
SaveTail_fulllen(arena) ==
    LET tail_offset == (Len(arena) \div CHUNK_SIZE) * CHUNK_SIZE
        tail_len == Len(arena) - tail_offset
    IN  IF tail_offset < Len(arena)
           /\ \E i \in 1..tail_len : arena[tail_offset + i] # 0
        THEN LE(tail_offset, 8) \o LE(CHUNK_SIZE, 8)
             \o SubSeq(arena, tail_offset + 1, Len(arena)) \o Zeros(CHUNK_SIZE - tail_len)
        ELSE << >>

SaveTail(arena) ==
    LET tail_offset == (Len(arena) \div CHUNK_SIZE) * CHUNK_SIZE
        tail_len == Len(arena) - tail_offset
    IN  IF tail_offset < Len(arena)
           /\ \E i \in 1..tail_len : arena[tail_offset + i] # 0
        THEN LE(tail_offset, 8) \o LE(tail_len, 8)
             \o SubSeq(arena, tail_offset + 1, Len(arena))
        ELSE << >>

SaveSentinel == SENTINEL_ADDR \o LE(0, 8)

SaveArena(arena) == SaveFullChunks(arena, 0) \o SaveTail(arena) \o SaveSentinel

\* everything of the blob that precedes the chunk stream
SaveMeta(m, ord) ==
    SaveHeader \o SaveCpu(m) \o SaveMemory(m) \o SaveExecCtx(m) \o SaveSched(m)
    \o SaveEpoll(m, ord) \o SaveEventfd(m, ord) \o SaveExecPages(m, ord)

save_checkpoint(m, ord) == SaveMeta(m, ord) \o SaveArena(m.arena)

(***************************************************************************)
(* Reader: bounds-checked reads at a byte position of the blob.            *)
(***************************************************************************)
Has(b, p, n) == p + n <= Len(b)

Rd(b, p, n) == SubSeq(b, p + 1, p + n)

remaining(b, p) == Len(b) - p

\* byte positions of the fixed-size fields, in the order load reads them
OFF_PC == 16
OFF_FCSR == OFF_PC + 8
OFF_REGS == OFF_FCSR + 4 + 4
OFF_FREGS == OFF_REGS + 8 * NumRegs
OFF_MMAP == OFF_FREGS + 8 * NumRegs
OFF_BRK == OFF_MMAP + 8
OFF_CTX == OFF_BRK + 16
OFF_FLAGS == OFF_CTX + 10 * 8
OFF_SCHED == OFF_FLAGS + 2 + 6

\* a header check that forgets the version
HeaderCheck_noversion(b) ==
    IF ~Has(b, 0, 8) THEN "unexpected EOF"
    ELSE IF Rd(b, 0, 8) # MAGIC THEN "bad magic"
    ELSE IF ~Has(b, 12, 4) THEN "unexpected EOF"
    ELSE "ok"

\* the header checks of load: "ok" or the message of the exception thrown
HeaderCheck(b) ==
    IF ~Has(b, 0, 8) THEN "unexpected EOF"
    ELSE IF Rd(b, 0, 8) # MAGIC THEN "bad magic"
    ELSE IF ~Has(b, 8, 4) THEN "unexpected EOF"
    ELSE IF FromLE(Rd(b, 8, 4)) # VERSION THEN "unsupported version"
    ELSE IF ~Has(b, 12, 4) THEN "unexpected EOF"
    ELSE "ok"

\* the locals of load that hold the fixed-size fields
ParseFixed(b) ==
    [ pc |-> FromLE(Rd(b, OFF_PC, 8)),
      fcsr |-> FromLE(Rd(b, OFF_FCSR, 4)),
      int_regs |-> [i \in 1..NumRegs |-> FromLE(Rd(b, OFF_REGS + 8 * (i - 1), 8))],
      fp_regs |-> [i \in 1..NumRegs |-> FromLE(Rd(b, OFF_FREGS + 8 * (i - 1), 8))],
      mmap_addr |-> FromLE(Rd(b, OFF_MMAP, 8)),
      brk_base |-> FromLE(Rd(b, OFF_BRK, 8)),
      brk_current |-> FromLE(Rd(b, OFF_BRK + 8, 8)),
      exec_base |-> FromLE(Rd(b, OFF_CTX, 8)),
      exec_rw_start |-> FromLE(Rd(b, OFF_CTX + 8, 8)),
      exec_rw_end |-> FromLE(Rd(b, OFF_CTX + 16, 8)),
      interp_base |-> FromLE(Rd(b, OFF_CTX + 24, 8)),
      interp_rw_start |-> FromLE(Rd(b, OFF_CTX + 32, 8)),
      interp_rw_end |-> FromLE(Rd(b, OFF_CTX + 40, 8)),
      interp_entry |-> FromLE(Rd(b, OFF_CTX + 48, 8)),
      original_stack_top |-> FromLE(Rd(b, OFF_CTX + 56, 8)),
      heap_start |-> FromLE(Rd(b, OFF_CTX + 64, 8)),
      heap_size |-> FromLE(Rd(b, OFF_CTX + 72, 8)),
      brk_overridden |-> FromLE(Rd(b, OFF_FLAGS, 1)),
      dynamic |-> FromLE(Rd(b, OFF_FLAGS + 1, 1)),
      exec_pages |-> << >> ]

\* the scheduler section is read straight into the live globals, one read
\* after the other; a read that runs off the blob throws after the earlier
\* ones have taken effect
ReadSched(b, p, m) ==
    IF ~Has(b, p, SchedSize) THEN [ok |-> FALSE, p |-> p, m |-> m]
    ELSE LET m1 == [m EXCEPT !.g_sched = Rd(b, p, SchedSize)]
             p1 == p + SchedSize
         IN  IF ~Has(b, p1, 4) THEN [ok |-> FALSE, p |-> p1, m |-> m1]
             ELSE LET m2 == [m1 EXCEPT !.g_next_pid = FromLE(Rd(b, p1, 4))]
                  IN  IF ~Has(b, p1 + 4, 4) THEN [ok |-> FALSE, p |-> p1 + 4, m |-> m2]
                      ELSE [ok |-> TRUE, p |-> p1 + 8,
                            m |-> [m2 EXCEPT !.g_next_epoll_fd = FromLE(Rd(b, p1 + 4, 4))]]

RECURSIVE ReadInterests(_, _, _, _)
ReadInterests(b, p, n, inst) ==
    IF n = 0 THEN [ok |-> TRUE, p |-> p, inst |-> inst]
    ELSE IF ~Has(b, p, 16) THEN [ok |-> FALSE, p |-> p, inst |-> inst]
    ELSE ReadInterests(b, p + 16, n - 1,
            Put(inst, FromLE(Rd(b, p, 4)),
                [events |-> FromLE(Rd(b, p + 4, 4)), data |-> FromLE(Rd(b, p + 8, 8))]))

RECURSIVE ReadEpollInstances(_, _, _, _)
ReadEpollInstances(b, p, n, map) ==
    IF n = 0 THEN [ok |-> TRUE, p |-> p, map |-> map]
    ELSE IF ~Has(b, p, 8) THEN [ok |-> FALSE, p |-> p, map |-> map]
    ELSE LET epfd == FromLE(Rd(b, p, 4))
             num_interests == FromLE(Rd(b, p + 4, 4))
             map1 == IF epfd \in DOMAIN map THEN map ELSE Put(map, epfd, << >>)
             r == ReadInterests(b, p + 8, num_interests, map1[epfd])
             map2 == [map1 EXCEPT ![epfd] = r.inst]
         IN  IF r.ok THEN ReadEpollInstances(b, r.p, n - 1, map2)
             ELSE [ok |-> FALSE, p |-> r.p, map |-> map2]

\* the epoll section: the live map is cleared once the count is read
ReadEpoll(b, p, m) ==
    IF ~Has(b, p, 4) THEN [ok |-> FALSE, p |-> p, m |-> m]
    ELSE LET r == ReadEpollInstances(b, p + 4, FromLE(Rd(b, p, 4)), << >>)
         IN  [ok |-> r.ok, p |-> r.p, m |-> [m EXCEPT !.g_epoll_instances = r.map]]

RECURSIVE ReadEventfdCounters(_, _, _, _)
ReadEventfdCounters(b, p, n, map) ==
    IF n = 0 THEN [ok |-> TRUE, p |-> p, map |-> map]
    ELSE IF ~Has(b, p, 12) THEN [ok |-> FALSE, p |-> p, map |-> map]
    ELSE ReadEventfdCounters(b, p + 12, n - 1,
            Put(map, FromLE(Rd(b, p, 4)), FromLE(Rd(b, p + 4, 8))))

ReadEventfd(b, p, m) ==
    IF ~Has(b, p, 4) THEN [ok |-> FALSE, p |-> p, m |-> m]
    ELSE LET r == ReadEventfdCounters(b, p + 4, FromLE(Rd(b, p, 4)), << >>)
         IN  [ok |-> r.ok, p |-> r.p, m |-> [m EXCEPT !.g_eventfd_counters = r.map]]

\* the executable page list goes to a local vector
ReadExecPages(b, p) ==
    IF ~Has(b, p, 8) THEN [ok |-> FALSE, p |-> p, exec_pages |-> << >>]
    ELSE LET n == FromLE(Rd(b, p, 8))
         IN  IF ~Has(b, p + 8, 8 * n) THEN [ok |-> FALSE, p |-> p, exec_pages |-> << >>]
             ELSE [ok |-> TRUE, p |-> p + 8 + 8 * n,
                   exec_pages |-> [i \in 1..n |-> FromLE(Rd(b, p + 8 * i, 8))]]

\* an eviction that leaves the cache as it is
evict_execute_segments_kept(segs) == segs

\* Memory::evict_execute_segments: drops every cached decoded segment
evict_execute_segments(segs) == {}

\* a load that does not clear the arena first
ZeroArena_skipped(arena) == arena

\* std::memset(arena, 0, arena_size)
ZeroArena(arena) == Zeros(Len(arena))

\* memcpy of a record's payload to arena + guest_addr
CopyChunk(arena, guest_addr, payload) ==
    [i \in 1..Len(arena) |->
        IF i > guest_addr /\ i <= guest_addr + Len(payload)
        THEN payload[i - guest_addr] ELSE arena[i]]

\* the bounds test of a record: TRUE when the record is to be skipped
ChunkExceeds(guest_addr, len, arena_size) ==
    Gt64(Add64(guest_addr, len), LE(arena_size, 8))

\* attributes that leave the page writable
exec_attr_writable == [read |-> TRUE, write |-> TRUE, exec |-> TRUE]

\* Memory::set_pageno_attr, applied to every page of the list
exec_attr == [read |-> TRUE, write |-> FALSE, exec |-> TRUE]

RECURSIVE RestoreExecPages(_, _)
RestoreExecPages(pages, exec_pages) ==
    IF exec_pages = << >> THEN pages
    ELSE RestoreExecPages(Put(pages, Head(exec_pages), exec_attr), Tail(exec_pages))

(***************************************************************************)
(* State.                                                                  *)
(***************************************************************************)
VARIABLES
    live,       \* the machine and the globals of the system-call layer
    blob,       \* the checkpoint bytes handed to load_checkpoint
    blob_kind,  \* how the blob came about: "none", "saved", "truncated", ...
    step,       \* position of load_checkpoint: "idle", a section, "done", "failed"
    r_p,        \* Reader::p, as a byte offset into the blob
    loc,        \* the locals of load_checkpoint holding parsed fields
    err,        \* message of the exception that ended load, "" if none
    oob,        \* a record's payload was copied to an address outside the arena
    snap,       \* the live state at the time save_checkpoint ran
    pre,        \* the live state at the time load_checkpoint was called
    build,      \* "emscripten" (JS primitives, JSPI) or "native" (stubs)
    ctx,        \* the execution context: "running", "suspended", "unwound"
    hc,         \* the hypercall of the guest's current operation: number, arguments
    issued,     \* number of hypercalls dispatched so far (a call the shim
                \* serves inside the guest counts as one)
    completed,  \* number of them that have returned
    prims,      \* host primitives invoked by the current handler, in order
    nresults,   \* number of set_result calls made by the current handler
    badptr,     \* the current handler met a guest pointer it could not translate
    route       \* what the guest shim did with the last call it intercepted

\* the variables of checkpoint save/load, and those of the hypercall harness
ckvars == <<live, blob, blob_kind, step, r_p, loc, err, oob, snap, pre>>

hvars == <<build, ctx, hc, issued, completed, prims, nresults, badptr, route>>

vars == <<live, blob, blob_kind, step, r_p, loc, err, oob, snap, pre,
          build, ctx, hc, issued, completed, prims, nresults, badptr, route>>

\* no hypercall has been dispatched yet; no descriptor operation was routed yet
NoCall == [nr |-> 0, args |-> <<0, 0, 0, 0>>]

NoRoute == [op |-> "none", fd |-> 0, via |-> "none", nr |-> 0,
            args |-> <<0, 0, 0, 0>>, ret |-> 0]

arena_size == Len(live.arena)

Init ==
    /\ \E size \in ArenaSizes, k \in Profiles : live = Profile(k, size)
    /\ blob = << >>
    /\ blob_kind = "none"
    /\ step = "idle"
    /\ r_p = 0
    /\ loc = << >>
    /\ err = ""
    /\ oob = FALSE
    /\ snap = << >>
    /\ pre = << >>
    /\ build = "emscripten"
    /\ ctx = "running"
    /\ hc = NoCall
    /\ issued = 0
    /\ completed = 0
    /\ prims = << >>
    /\ nresults = 0
    /\ badptr = FALSE
    /\ route = NoRoute

(***************************************************************************)
(* The environment: the guest runs, the blob is stored and transported.    *)
(***************************************************************************)
GuestRun(k) ==
    /\ step = "idle"
    /\ live' = Profile(k, arena_size)
    /\ live' # live
    /\ UNCHANGED <<blob, blob_kind, step, r_p, loc, err, oob, snap, pre, hvars>>

\* byte positions at which a stored blob is cut short
CutPoints(b) ==
    LET fixed == {0, 8, 12, OFF_PC, OFF_FCSR, OFF_REGS, OFF_FREGS, OFF_MMAP,
                  OFF_BRK, OFF_CTX, OFF_FLAGS, OFF_SCHED}
    IN  fixed \cup {k + 1 : k \in fixed} \cup (OFF_SCHED..(Len(b) - 1))

Truncate ==
    /\ step = "idle" /\ blob_kind = "saved"
    /\ \E k \in CutPoints(blob) : blob' = SubSeq(blob, 1, k)
    /\ blob_kind' = "truncated"
    /\ UNCHANGED <<live, step, r_p, loc, err, oob, snap, pre, hvars>>

CorruptMagic(i) ==
    /\ step = "idle" /\ blob_kind = "saved"
    /\ blob' = [blob EXCEPT ![i] = (@ + 1) % 256]
    /\ blob_kind' = "badmagic"
    /\ UNCHANGED <<live, step, r_p, loc, err, oob, snap, pre, hvars>>

BadVersions == {0, 1, 3, 258}

CorruptVersion(v) ==
    /\ step = "idle" /\ blob_kind = "saved"
    /\ blob' = SubSeq(blob, 1, 8) \o LE(v, 4) \o SubSeq(blob, 13, Len(blob))
    /\ blob_kind' = "badversion"
    /\ UNCHANGED <<live, step, r_p, loc, err, oob, snap, pre, hvars>>

\* hand-made chunk streams: a valid record, one bad record, a valid record,
\* the sentinel
RecA == LE(0, 8) \o LE(2, 8) \o <<171, 205>>

RecB(size) == LE(size - 1, 8) \o LE(1, 8) \o <<239>>

CraftKinds == {"beyond", "straddle", "wrap", "hugelen"}

BadRec(kind, size) ==
    CASE kind = "beyond" -> LE(size, 8) \o LE(2, 8) \o <<17, 18>>
      [] kind = "straddle" -> LE(size - 1, 8) \o LE(2, 8) \o <<17, 18>>
      [] kind = "wrap" -> <<254, 255, 255, 255, 255, 255, 255, 255>> \o LE(2, 8) \o <<17, 18>>
      [] kind = "hugelen" -> LE(0, 8) \o <<0, 0, 0, 0, 0, 1, 0, 0>>

CraftedStream(kind, size) == RecA \o BadRec(kind, size) \o RecB(size) \o SaveSentinel

Craft(kind) ==
    /\ step = "idle" /\ blob_kind = "saved"
    /\ blob' = SubSeq(blob, 1, Len(blob) - Len(SaveArena(snap.arena)))
                \o CraftedStream(kind, arena_size)
    /\ blob_kind' = "crafted"
    /\ UNCHANGED <<live, step, r_p, loc, err, oob, snap, pre, hvars>>

(***************************************************************************)
(* save_checkpoint                                                         *)
(***************************************************************************)
\* a save that also drops the cached decoded segments, as load does
LiveAfterSave_evicting(m) == [m EXCEPT !.exec_segments = {}]

\* the live state after save_checkpoint returns: every access it makes to
\* the machine and to the globals is a read
LiveAfterSave(m) == m

Save(ord) ==
    /\ step = "idle" /\ blob_kind = "none"
    /\ blob' = save_checkpoint(live, ord)
    /\ blob_kind' = "saved"
    /\ snap' = live
    /\ live' = LiveAfterSave(live)
    /\ UNCHANGED <<step, r_p, loc, err, oob, pre, hvars>>

(***************************************************************************)
(* load_checkpoint, section by section.                                    *)
(***************************************************************************)
Throw(e) == step' = "failed" /\ err' = e

LoadBegin ==
    /\ step = "idle" /\ blob_kind # "none"
    /\ step' = "header"
    /\ r_p' = 0
    /\ pre' = live
    /\ UNCHANGED <<live, blob, blob_kind, loc, err, oob, snap, hvars>>

LoadHeader ==
    /\ step = "header"
    /\ IF HeaderCheck(blob) = "ok"
       THEN step' = "fixed" /\ r_p' = OFF_PC /\ err' = err
       ELSE Throw(HeaderCheck(blob)) /\ r_p' = r_p
    /\ UNCHANGED <<live, blob, blob_kind, loc, oob, snap, pre, hvars>>

LoadFixed ==
    /\ step = "fixed"
    /\ IF Has(blob, r_p, OFF_SCHED - OFF_PC)
       THEN step' = "sched" /\ r_p' = OFF_SCHED /\ loc' = ParseFixed(blob) /\ err' = err
       ELSE Throw("unexpected EOF") /\ UNCHANGED <<r_p, loc>>
    /\ UNCHANGED <<live, blob, blob_kind, oob, snap, pre, hvars>>

LoadSched ==
    /\ step = "sched"
    /\ LET r == ReadSched(blob, r_p, live)
       IN  /\ live' = r.m
           /\ r_p' = r.p
           /\ IF r.ok THEN step' = "epoll" /\ err' = err ELSE Throw("unexpected EOF")
    /\ UNCHANGED <<blob, blob_kind, loc, oob, snap, pre, hvars>>

LoadEpoll ==
    /\ step = "epoll"
    /\ LET r == ReadEpoll(blob, r_p, live)
       IN  /\ live' = r.m
           /\ r_p' = r.p
           /\ IF r.ok THEN step' = "eventfd" /\ err' = err ELSE Throw("unexpected EOF")
    /\ UNCHANGED <<blob, blob_kind, loc, oob, snap, pre, hvars>>

LoadEventfd ==
    /\ step = "eventfd"
    /\ LET r == ReadEventfd(blob, r_p, live)
       IN  /\ live' = r.m
           /\ r_p' = r.p
           /\ IF r.ok THEN step' = "exec_pages" /\ err' = err ELSE Throw("unexpected EOF")
    /\ UNCHANGED <<blob, blob_kind, loc, oob, snap, pre, hvars>>

LoadExecPages ==
    /\ step = "exec_pages"
    /\ LET r == ReadExecPages(blob, r_p)
       IN  /\ r_p' = r.p
           /\ IF r.ok
              THEN step' = "evict" /\ err' = err
                   /\ loc' = [loc EXCEPT !.exec_pages = r.exec_pages]
              ELSE Throw("unexpected EOF") /\ loc' = loc
    /\ UNCHANGED <<live, blob, blob_kind, oob, snap, pre, hvars>>

LoadEvict ==
    /\ step = "evict"
    /\ live' = [live EXCEPT !.exec_segments = evict_execute_segments(@)]
    /\ step' = "zero"
    /\ UNCHANGED <<blob, blob_kind, r_p, loc, err, oob, snap, pre, hvars>>

LoadZero ==
    /\ step = "zero"
    /\ live' = [live EXCEPT !.arena = ZeroArena(@)]
    /\ step' = "chunks"
    /\ UNCHANGED <<blob, blob_kind, r_p, loc, err, oob, snap, pre, hvars>>

\* one iteration of the record loop
LoadChunk ==
    /\ step = "chunks"
    /\ IF remaining(blob, r_p) < 16
       THEN step' = "perms" /\ UNCHANGED <<live, r_p, err, oob>>
       ELSE
         LET guest_addr == Rd(blob, r_p, 8)
             len == Rd(blob, r_p + 8, 8)
             p == r_p + 16
         IN  IF guest_addr = SENTINEL_ADDR
             THEN step' = "perms" /\ r_p' = p /\ UNCHANGED <<live, err, oob>>
             ELSE IF ChunkExceeds(guest_addr, len, arena_size)
             THEN /\ r_p' = IF Ge64(LE(remaining(blob, p), 8), len) THEN p + FromLE(len) ELSE p
                  /\ UNCHANGED <<live, step, err, oob>>
             ELSE IF ~Wraps64(guest_addr, len)
             THEN \* the record lies inside the arena
                  IF Has(blob, p, FromLE(len))
                  THEN /\ live' = [live EXCEPT !.arena =
                                     CopyChunk(@, FromLE(guest_addr), Rd(blob, p, FromLE(len)))]
                       /\ r_p' = p + FromLE(len)
                       /\ UNCHANGED <<step, err, oob>>
                  ELSE Throw("unexpected EOF") /\ r_p' = p /\ UNCHANGED <<live, oob>>
             ELSE \* guest_addr + len wrapped: arena + guest_addr points outside
                  \* the arena; the copy there is undefined behaviour
                  IF Gt64(len, LE(remaining(blob, p), 8))
                  THEN Throw("unexpected EOF") /\ r_p' = p /\ UNCHANGED <<live, oob>>
                  ELSE \/ /\ oob' = TRUE
                          /\ r_p' = p + FromLE(len)
                          /\ UNCHANGED <<live, step, err>>
                       \/ /\ oob' = TRUE
                          /\ step' = "crashed"
                          /\ UNCHANGED <<live, r_p, err>>
    /\ UNCHANGED <<blob, blob_kind, loc, snap, pre, hvars>>

LoadPerms ==
    /\ step = "perms"
    /\ live' = [live EXCEPT !.pages = RestoreExecPages(@, loc.exec_pages)]
    /\ step' = "cpu_regs"
    /\ UNCHANGED <<blob, blob_kind, r_p, loc, err, oob, snap, pre, hvars>>

\* the jump to the restored PC made where the registers should be restored
LoadCpuRegs_jumpfirst ==
    /\ step = "cpu_regs"
    /\ live' = [live EXCEPT !.pc = loc.pc]
    /\ step' = "cpu_jump"
    /\ UNCHANGED <<blob, blob_kind, r_p, loc, err, oob, snap, pre, hvars>>

LoadCpuRegs ==
    /\ step = "cpu_regs"
    /\ live' = [live EXCEPT !.regs = loc.int_regs, !.fregs = loc.fp_regs,
                            !.fcsr = loc.fcsr]
    /\ step' = "cpu_jump"
    /\ UNCHANGED <<blob, blob_kind, r_p, loc, err, oob, snap, pre, hvars>>

LoadJump ==
    /\ step = "cpu_jump"
    /\ live' = [live EXCEPT !.pc = loc.pc]
    /\ step' = "mmap"
    /\ UNCHANGED <<blob, blob_kind, r_p, loc, err, oob, snap, pre, hvars>>

LoadMmap ==
    /\ step = "mmap"
    /\ live' = [live EXCEPT !.mmap_address = loc.mmap_addr]
    /\ step' = "exec_ctx"
    /\ UNCHANGED <<blob, blob_kind, r_p, loc, err, oob, snap, pre, hvars>>

RestoreExecCtx(l) ==
    [ exec_base |-> l.exec_base, exec_rw_start |-> l.exec_rw_start,
      exec_rw_end |-> l.exec_rw_end, interp_base |-> l.interp_base,
      interp_rw_start |-> l.interp_rw_start, interp_rw_end |-> l.interp_rw_end,
      interp_entry |-> l.interp_entry, original_stack_top |-> l.original_stack_top,
      heap_start |-> l.heap_start, heap_size |-> l.heap_size,
      brk_base |-> l.brk_base, brk_current |-> l.brk_current,
      brk_overridden |-> (l.brk_overridden # 0), dynamic |-> (l.dynamic # 0) ]

LoadExecCtx ==
    /\ step = "exec_ctx"
    /\ live' = [live EXCEPT !.ctx = RestoreExecCtx(loc)]
    /\ step' = "flag"
    /\ UNCHANGED <<blob, blob_kind, r_p, loc, err, oob, snap, pre, hvars>>

LoadFlag ==
    /\ step = "flag"
    /\ live' = [live EXCEPT !.g_waiting_for_stdin = TRUE]
    /\ step' = "done"
    /\ UNCHANGED <<blob, blob_kind, r_p, loc, err, oob, snap, pre, hvars>>

Next ==
    \/ \E k \in Profiles : GuestRun(k)
    \/ \E ord \in EnumOrders : Save(ord)
    \/ Truncate
    \/ \E i \in 1..8 : CorruptMagic(i)
    \/ \E v \in BadVersions : CorruptVersion(v)
    \/ \E kind \in CraftKinds : Craft(kind)
    \/ LoadBegin
    \/ LoadHeader
    \/ LoadFixed
    \/ LoadSched
    \/ LoadEpoll
    \/ LoadEventfd
    \/ LoadExecPages
    \/ LoadEvict
    \/ LoadZero
    \/ LoadChunk
    \/ LoadPerms
    \/ LoadCpuRegs
    \/ LoadJump
    \/ LoadMmap
    \/ LoadExecCtx
    \/ LoadFlag

Spec == Init /\ [][Next]_vars

(***************************************************************************)
(* The hypercall harness (vh_harness.hpp) and the guest shim               *)
(* (vh_preload.c).  The guest runs in a machine of HArenaSize bytes; its   *)
(* arguments travel in a0..a3 and the hypercall number in a7.              *)
(***************************************************************************)
HArenaSize == 160

MaxCalls == 2

REG_A0 == 10

REG_A7 == 17

SOCKADDR_IN_SIZE == 16

RESULT_BUF_SIZE == 128

ENOSYS == 38

EFAULT == 14

Builds == {"emscripten", "native"}

Installed == {600, 601, 602, 603, 604, 700, 703, 704, 705, 706, 708,
              800, 801, 802, 803}

\* guest memory of the harness runs: a NUL-terminated name at 8, then a
\* sockaddr_in at 16, then bytes that are never zero (an unterminated string)
HArena ==
    [i \in 1..HArenaSize |->
        LET a == i - 1 IN
        IF a < 8 THEN 0
        ELSE IF a < 12 THEN 97 + (a - 8)
        ELSE IF a < 16 THEN 0
        ELSE IF a = 16 THEN 2
        ELSE (a % 251) + 1]

HMachine == [Profile(2, CHUNK_SIZE) EXCEPT !.arena = HArena]

\* machine.sysarg(i) and machine.set_result(v): registers a0.. of the guest;
\* args are the values vh_ecall loaded into a0..a3
sysarg(args, i) == args[i + 1]

set_result(m, v) == [m EXCEPT !.regs[REG_A0 + 1] = v]

\* the register file at the ecall instruction of vh_ecall
SetArgs(m, nr, args) ==
    [m EXCEPT !.regs = [r \in 1..NumRegs |->
        IF r = REG_A7 + 1 THEN nr
        ELSE IF r \in (REG_A0 + 1)..(REG_A0 + 4) THEN args[r - REG_A0]
        ELSE @[r]]]

\* machine.memory.memarray<T>(addr, n): a host view of n bytes, or no view
\* (the handlers test the pointer for null)
InGuest(arena, addr, len) == addr >= 0 /\ len >= 0 /\ addr + len <= Len(arena)

View(addr, len) == [kind |-> "view", addr |-> addr, len |-> len]

Nullptr == [kind |-> "nullptr", addr |-> 0, len |-> 0]

Invalid(addr) == [kind |-> "invalid", addr |-> addr, len |-> 0]

Raw(addr) == [kind |-> "raw", addr |-> addr, len |-> 0]

Local == [kind |-> "local", addr |-> 0, len |-> 0]

memarray(arena, addr, len) ==
    IF InGuest(arena, addr, len) THEN View(addr, len) ELSE Invalid(addr)

\* machine.memory.memstring(addr): the bytes up to the first NUL; there is
\* none when the string runs off the end of guest memory
HasString(arena, addr) ==
    addr >= 0 /\ \E j \in (addr + 1)..Len(arena) : arena[j] = 0

\* what a guest access that cannot be satisfied does to the handler; only
\* memstring (600, 801) and memory.write (704) can meet one
FaultOutcomes == {"throw", "tolerated"}

FaultsOf(nr) == IF nr \in {600, 704, 801} THEN FaultOutcomes ELSE {"throw"}

MemWrite(arena, addr, bytes) ==
    [i \in 1..Len(arena) |->
        IF i > addr /\ i <= addr + Len(bytes) THEN bytes[i - addr] ELSE arena[i]]

\* for (i = lo; i < n; i++) d[i] = s[i]: the bytes are copied one by one in
\* rising order, the first half of the iterations and then, on the memory
\* they leave, the second half (a copy never changes the memory's length)
RECURSIVE CopyUp(_, _, _, _, _)
CopyUp(arena, dest, src, n, lo) ==
    IF lo >= n THEN arena
    ELSE IF n - lo = 1 THEN [arena EXCEPT ![dest + lo + 1] = arena[src + lo + 1]]
    ELSE LET mid == lo + ((n - lo) \div 2)
             first == CopyUp(arena, dest, src, mid, lo)
         IN  IF Len(first) = Len(arena)
             THEN CopyUp(first, dest, src, n, mid)
             ELSE first

\* for (i = n; i > lo; i--) d[i-1] = s[i-1]: the bytes are copied one by one
\* in falling order, the upper half of the iterations and then the lower half
RECURSIVE CopyDown(_, _, _, _, _)
CopyDown(arena, dest, src, n, lo) ==
    IF n <= lo THEN arena
    ELSE IF n - lo = 1 THEN [arena EXCEPT ![dest + n] = arena[src + n]]
    ELSE LET mid == lo + ((n - lo) \div 2)
             first == CopyDown(arena, dest, src, n, mid)
         IN  IF Len(first) = Len(arena)
             THEN CopyDown(first, dest, src, mid, lo)
             ELSE first

\* std::memmove replaced by a plain upward copy
memmove_upward(arena, dest, src, len) == CopyUp(arena, dest, src, len, 0)

memmove(arena, dest, src, len) ==
    [i \in 1..Len(arena) |->
        IF i > dest /\ i <= dest + len THEN arena[src + (i - dest)] ELSE arena[i]]

\* C integer division and remainder (truncation toward zero)
CDiv(a, b) == IF a >= 0 THEN a \div b ELSE -((-a) \div b)

CRem(a, b) == a - b * CDiv(a, b)

(***************************************************************************)
(* Host primitives.  On the emscripten build the js_* functions are        *)
(* JavaScript imports, three of them suspending the context; on the native *)
(* build they are stubs.                                                   *)
(***************************************************************************)
AsyncPrims == {"js_opfs_io", "js_net_proxy", "js_dns_resolve"}

Suspending(b) == IF b = "emscripten" THEN AsyncPrims ELSE {}

\* what a primitive can return: -1 on error, else zero
Rets == {-1, 0}

PrimRets(prim, b) == IF b = "emscripten" THEN Rets ELSE {-ENOSYS}

\* the host's clock in milliseconds, a 64-bit value in little-endian bytes:
\* 1999 ms and 2^31 + 5000 ms
NoTime == << >>

HostTimes == {LE(1999, 8), <<136, 19, 0, 128, 0, 0, 0, 0>>}

\* a long of 32 bits (wasm32): the low four bytes, the fourth carrying the sign
Long32(t) ==
    t[1] + 256 * t[2] + 65536 * t[3]
    + 16777216 * (IF t[4] >= 128 THEN t[4] - 256 ELSE t[4])

\* the native clock is explored for the times that fit a model integer
FitsLong32(t) == t[4] < 128 /\ \A i \in 5..8 : t[i] = 0

\* long js_gettime_ms(void): the host time as a long of the build, -1 when
\* the JS function fails
TimeOutcomes(b) ==
    IF b = "emscripten"
    THEN {[ret |-> Long32(t), host |-> t] : t \in HostTimes}
         \cup {[ret |-> -1, host |-> NoTime]}
    ELSE {[ret |-> FromLE(t), host |-> t] : t \in {u \in HostTimes : FitsLong32(u)}}

PrimOutcomes(prim, b) ==
    IF prim = "js_gettime_ms" THEN TimeOutcomes(b)
    ELSE {[ret |-> r, host |-> NoTime] : r \in PrimRets(prim, b)}

\* the address js_dns_resolve leaves in ip_buf: "1.2.3.4"
ResolvedIp == <<49, 46, 50, 46, 51, 46, 52>>

\* the primitive each handler hands its work to
PrimOf_netcompute(nr) ==
    IF nr \in 600..604 THEN "js_opfs_io"
    ELSE IF nr \in {700, 705, 708} THEN "js_compute_offload"
    ELSE IF nr = 706 THEN "js_net_proxy"
    ELSE IF nr = 704 THEN "js_gettime_ms"
    ELSE IF nr = 801 THEN "js_dns_resolve"
    ELSE "js_net_proxy"

PrimOf(nr) ==
    IF nr \in 600..604 THEN "js_opfs_io"
    ELSE IF nr \in {700, 705, 706, 708} THEN "js_compute_offload"
    ELSE IF nr = 704 THEN "js_gettime_ms"
    ELSE IF nr = 801 THEN "js_dns_resolve"
    ELSE "js_net_proxy"

(***************************************************************************)
(* The handlers, each in two parts: what it does up to its call of a host  *)
(* primitive, and what it does with the value the primitive returns.       *)
(***************************************************************************)
Call(arena, prim, ptrs, bad) ==
    [out |-> "call", arena |-> arena, prim |-> prim, ptrs |-> ptrs, val |-> 0, bad |-> bad]

Finish(arena, val, bad) ==
    [out |-> "finish", arena |-> arena, prim |-> "none", ptrs |-> << >>, val |-> val, bad |-> bad]

Thrown(arena, bad) ==
    [out |-> "throw", arena |-> arena, prim |-> "none", ptrs |-> << >>, val |-> 0, bad |-> bad]

Bad(p) == p.kind = "invalid"

\* 600 and 801: the path or node name is read with memstring
StringHandler(nr, arena, args, fault, ptrs) ==
    IF HasString(arena, sysarg(args, 0)) \/ fault = "tolerated"
    THEN Call(arena, PrimOf(nr), ptrs, ~HasString(arena, sysarg(args, 0)))
    ELSE Thrown(arena, TRUE)

\* 601, 602, 604, 700, 705, 708, 802, 803: one guest buffer through memarray
\* the pointer arguments of js_opfs_io (buf), of js_compute_offload (p1, p2)
\* and of js_net_proxy (ip, buf)
PtrArgs(prim, buf) ==
    CASE prim = "js_opfs_io" -> <<buf>>
      [] prim = "js_compute_offload" -> <<buf, Nullptr>>
      [] OTHER -> <<Nullptr, buf>>

BufferHandler(nr, arena, args, ai, li) ==
    LET buf == memarray(arena, sysarg(args, ai), sysarg(args, li))
    IN  Call(arena, PrimOf(nr), PtrArgs(PrimOf(nr), buf), Bad(buf))

Handler703(arena, args) ==
    LET dest_addr == sysarg(args, 0)
        src_addr  == sysarg(args, 1)
        len       == sysarg(args, 2)
        dest == memarray(arena, dest_addr, len)
        src  == memarray(arena, src_addr, len)
    IN  IF ~Bad(dest) /\ ~Bad(src) /\ len > 0
        THEN Finish(memmove(arena, dest_addr, src_addr, len), dest_addr, FALSE)
        ELSE Finish(arena, dest_addr, Bad(dest) \/ Bad(src))

Handler704(arena, args) ==
    IF sysarg(args, 0) # 0
    THEN Call(arena, PrimOf(704), << >>, FALSE)
    ELSE Finish(arena, 0, FALSE)

Handler800(arena, args, b) ==
    IF b = "emscripten"
    THEN LET sin == memarray(arena, sysarg(args, 1), SOCKADDR_IN_SIZE)
         IN  IF Bad(sin) THEN Finish(arena, -EFAULT, TRUE)
             ELSE Call(arena, PrimOf(800), <<Local, Nullptr>>, FALSE)
    ELSE Finish(arena, -ENOSYS, FALSE)

Handler801(arena, args, b, fault) ==
    IF b = "emscripten"
    THEN StringHandler(801, arena, args, fault, <<Local, Local>>)
    ELSE Finish(arena, -ENOSYS, FALSE)

HandlerPre(nr, arena, args, b, fault) ==
    CASE nr = 600 -> StringHandler(600, arena, args, fault, <<Local>>)
      [] nr \in {601, 602, 604} -> BufferHandler(nr, arena, args, 1, 2)
      [] nr = 603 -> Call(arena, PrimOf(603), <<Nullptr>>, FALSE)
      [] nr = 700 -> BufferHandler(nr, arena, args, 1, 2)
      [] nr = 703 -> Handler703(arena, args)
      [] nr = 704 -> Handler704(arena, args)
      [] nr \in {705, 708} -> BufferHandler(nr, arena, args, 0, 1)
      [] nr = 706 -> Call(arena, PrimOf(706),
                          <<Raw(sysarg(args, 0)), Raw(sysarg(args, 2))>>, FALSE)
      [] nr = 800 -> Handler800(arena, args, b)
      [] nr = 801 -> Handler801(arena, args, b, fault)
      [] nr \in {802, 803} -> BufferHandler(nr, arena, args, 1, 2)

Returned(arena, val, bad) == [out |-> "finish", arena |-> arena, val |-> val, bad |-> bad]

Faulted(arena) == [out |-> "throw", arena |-> arena, val |-> 0, bad |-> TRUE]

\* 704 after js_gettime_ms: two 64-bit stores, then set_result(0)
Post704(arena, addr, ms, fault) ==
    LET sec  == CDiv(ms, 1000)
        usec == CRem(ms, 1000) * 1000
        a1 == IF InGuest(arena, addr, 8) THEN MemWrite(arena, addr, LE(sec, 8)) ELSE arena
        a2 == MemWrite(a1, addr + 8, LE(usec, 8))
    IN  IF InGuest(arena, addr, 16) THEN Returned(a2, 0, FALSE)
        ELSE IF fault = "tolerated" THEN Returned(a1, 0, TRUE)
        ELSE Faulted(a1)

\* 801 after js_dns_resolve, were a bad result buffer to end the handler
Post801_faulting(arena, res_ptr_addr, ret) ==
    IF ret = 0 /\ res_ptr_addr # 0 /\ ~InGuest(arena, res_ptr_addr, RESULT_BUF_SIZE)
    THEN Faulted(arena)
    ELSE Returned(arena, ret, FALSE)

\* 801 after js_dns_resolve: the address string goes to the guest buffer
Post801(arena, res_ptr_addr, ret) ==
    LET result_buf == memarray(arena, res_ptr_addr, RESULT_BUF_SIZE)
    IN  IF ret = 0 /\ res_ptr_addr # 0
        THEN IF ~Bad(result_buf)
             THEN Returned(MemWrite(arena, res_ptr_addr, ResolvedIp \o <<0>>), ret, FALSE)
             ELSE Returned(arena, ret, TRUE)
        ELSE Returned(arena, ret, FALSE)

HandlerPost(nr, arena, args, ret, fault) ==
    CASE nr = 704 -> Post704(arena, sysarg(args, 0), ret, fault)
      [] nr = 801 -> Post801(arena, sysarg(args, 3), ret)
      [] OTHER -> Returned(arena, ret, FALSE)

(***************************************************************************)
(* The guest shim: where read, write, pread and close send a descriptor.   *)
(***************************************************************************)
SYS_close == 57

SYS_read == 63

SYS_write == 64

SYS_pread64 == 67

Ecall(nr, args) == [via |-> "ecall", nr |-> nr, args |-> args]

RawSyscall(nr, args) == [via |-> "native", nr |-> nr, args |-> args]

IsStorageFd_from3(fd) == fd > 3

IsStorageFd(fd) == fd > 2

IsSocketFd(fd) == fd >= 500 /\ fd < 600

shim_write(fd, buf, count) ==
    IF fd = 99 THEN Ecall(708, <<buf, count, 0, 0>>)
    ELSE IF IsSocketFd(fd) THEN Ecall(802, <<fd, buf, count, 0>>)
    ELSE IF IsStorageFd(fd) THEN Ecall(601, <<fd, buf, count, 0>>)
    ELSE RawSyscall(SYS_write, <<fd, buf, count, 0>>)

shim_read(fd, buf, count) ==
    IF IsSocketFd(fd) THEN Ecall(803, <<fd, buf, count, 0>>)
    ELSE IF IsStorageFd(fd) THEN Ecall(602, <<fd, buf, count, 0>>)
    ELSE RawSyscall(SYS_read, <<fd, buf, count, 0>>)

shim_pread(fd, buf, count, offset) ==
    IF IsStorageFd(fd) THEN Ecall(604, <<fd, buf, count, offset>>)
    ELSE RawSyscall(SYS_pread64, <<fd, buf, count, offset>>)

shim_close(fd) ==
    IF IsStorageFd(fd) THEN Ecall(603, <<fd, 0, 0, 0>>)
    ELSE RawSyscall(SYS_close, <<fd, 0, 0, 0>>)

ShimOps == {"write", "read", "pread", "close"}

ShimRoute(op, fd, buf, count, offset) ==
    CASE op = "write" -> shim_write(fd, buf, count)
      [] op = "read"  -> shim_read(fd, buf, count)
      [] op = "pread" -> shim_pread(fd, buf, count, offset)
      [] op = "close" -> shim_close(fd)

\* memmove of the shim, always copying upward
shim_memmove_forward(arena, dest, src, n) ==
    IF n > 1024 THEN Ecall(703, <<dest, src, n, 0>>)
    ELSE [via |-> "local", nr |-> 0, args |-> <<dest, src, n, 0>>,
          arena |-> CopyUp(arena, dest, src, n, 0), ret |-> dest]

\* memmove of the shim: large copies go to the host, small ones are copied
\* byte by byte inside the guest, upward when dest lies below src and
\* downward otherwise
shim_memmove(arena, dest, src, n) ==
    IF n > 1024 THEN Ecall(703, <<dest, src, n, 0>>)
    ELSE [via |-> "local", nr |-> 0, args |-> <<dest, src, n, 0>>,
          arena |-> IF dest < src THEN CopyUp(arena, dest, src, n, 0)
                    ELSE CopyDown(arena, dest, src, n, 0),
          ret |-> dest]

shim_gettimeofday(tv) == Ecall(704, <<tv, 0, 0, 0>>)

shim_getrandom(buf, len) == Ecall(705, <<buf, len, 0, 0>>)

shim_connect(fd, addr, len) == Ecall(800, <<fd, addr, len, 0>>)

shim_getaddrinfo(node, service, hints, res) ==
    Ecall(801, <<node, service, hints, res>>)

(***************************************************************************)
(* Inputs of the harness runs.                                             *)
(***************************************************************************)
ShimFds == {0, 2, 3, 99, 499, 500, 599, 600}

\* a buffer inside guest memory and one that straddles its end
Buffers == {<<40, 4>>, <<HArenaSize - 4, 8>>}

BufArgs == {<<3, b[1], b[2], 7>> : b \in Buffers}

EcallArgs(nr) ==
    CASE nr \in {600} -> {<<a, 0, 0, 0>> : a \in {8, 40}}
      [] nr \in {601, 602, 604, 700, 802, 803} -> BufArgs
      [] nr = 603 -> {<<3, 0, 0, 0>>}
      [] nr = 703 -> {<<10, 8, 4, 0>>, <<8, 10, 4, 0>>, <<40, 8, 0, 0>>,
                      <<HArenaSize - 4, 8, 8, 0>>, <<8, HArenaSize + 8, 4, 0>>}
      [] nr = 704 -> {<<a, 0, 0, 0>> : a \in {0, 48, HArenaSize - 8}}
      [] nr \in {705, 708} -> {<<b[1], b[2], 0, 0>> : b \in Buffers}
      [] nr = 706 -> {<<8, 4, 40, 4>>, <<HArenaSize + 8, 4, 40, 4>>}
      [] nr = 800 -> {<<500, a, SOCKADDR_IN_SIZE, 0>> : a \in {16, HArenaSize - 4}}
      [] nr = 801 -> {<<8, 0, 0, 0>>, <<8, 0, 0, 24>>, <<8, 0, 0, HArenaSize - 4>>, <<40, 0, 0, 24>>}

(***************************************************************************)
(* The harness as a state machine: the guest issues an ecall, the handler  *)
(* runs up to its host primitive, and a suspending primitive completes     *)
(* later.                                                                  *)
(***************************************************************************)
HInit ==
    /\ live = HMachine
    /\ blob = << >>
    /\ blob_kind = "none"
    /\ step = "idle"
    /\ r_p = 0
    /\ loc = << >>
    /\ err = ""
    /\ oob = FALSE
    /\ snap = << >>
    /\ pre = << >>
    /\ build \in Builds
    /\ ctx = "running"
    /\ hc = NoCall
    /\ issued = 0
    /\ completed = 0
    /\ prims = << >>
    /\ nresults = 0
    /\ badptr = FALSE
    /\ route = NoRoute

\* vh_ecall: the guest sits in the ecall instruction until a0 holds the result
ContextFree_any(c) == c # "unwound"

ContextFree(c) == c = "running"

Invoked(h, o, done) ==
    <<[prim |-> h.prim, ptrs |-> h.ptrs, done |-> done, ret |-> o.ret, host |-> o.host]>>

\* the handler continues after its primitive returned ret
Resume(m, nr, args, invoked, ret, fault, bad) ==
    LET post == HandlerPost(nr, m.arena, args, ret, fault)
    IN  /\ prims' = invoked
        /\ badptr' = (bad \/ post.bad)
        /\ IF post.out = "throw"
           THEN /\ live' = [m EXCEPT !.arena = post.arena]
                /\ ctx' = "unwound" /\ nresults' = 0 /\ completed' = completed
           ELSE /\ live' = set_result([m EXCEPT !.arena = post.arena], post.val)
                /\ ctx' = "running" /\ nresults' = 1 /\ completed' = completed + 1

Dispatch(nr, args) ==
    /\ ContextFree(ctx)
    /\ issued < MaxCalls
    /\ issued' = issued + 1
    /\ hc' = [nr |-> nr, args |-> args]
    /\ \E fault \in FaultsOf(nr) :
        LET h == HandlerPre(nr, live.arena, args, build, fault)
            m == [SetArgs(live, nr, args) EXCEPT !.arena = h.arena]
        IN  CASE h.out = "throw" ->
                   /\ live' = m /\ ctx' = "unwound" /\ prims' = << >>
                   /\ nresults' = 0 /\ badptr' = h.bad /\ completed' = completed
              [] h.out = "finish" ->
                   /\ live' = set_result(m, h.val) /\ ctx' = "running"
                   /\ prims' = << >> /\ nresults' = 1 /\ badptr' = h.bad
                   /\ completed' = completed + 1
              [] h.out = "call" /\ h.prim \in Suspending(build) ->
                   /\ live' = m /\ ctx' = "suspended"
                   /\ prims' = Invoked(h, [ret |-> 0, host |-> NoTime], FALSE)
                   /\ nresults' = 0 /\ badptr' = h.bad /\ completed' = completed
              [] h.out = "call" /\ h.prim \notin Suspending(build) ->
                   \E o \in PrimOutcomes(h.prim, build) :
                       Resume(m, nr, args, Invoked(h, o, TRUE), o.ret, fault, h.bad)

GuestEcall(nr) ==
    /\ \E args \in EcallArgs(nr) : Dispatch(nr, args)
    /\ route' = NoRoute
    /\ UNCHANGED <<blob, blob_kind, step, r_p, loc, err, oob, snap, pre, build>>

ShimCall(op) ==
    /\ ContextFree(ctx)
    /\ issued < MaxCalls
    /\ \E fd \in ShimFds :
        LET r == ShimRoute(op, fd, 40, 4, 7)
        IN  /\ route' = [op |-> op, fd |-> fd, via |-> r.via, nr |-> r.nr,
                          args |-> r.args, ret |-> 0]
            /\ IF r.via = "ecall"
               THEN Dispatch(r.nr, r.args)
               ELSE /\ hc' = NoCall /\ prims' = << >> /\ nresults' = 0 /\ badptr' = FALSE
                    /\ UNCHANGED <<live, ctx, issued, completed>>
    /\ UNCHANGED <<blob, blob_kind, step, r_p, loc, err, oob, snap, pre, build>>

HostComplete ==
    /\ ctx = "suspended"
    /\ \E ret \in PrimRets(prims[1].prim, build), fault \in FaultsOf(hc.nr) :
        Resume(live, hc.nr, hc.args,
               <<[prims[1] EXCEPT !.done = TRUE, !.ret = ret]>>, ret, fault, badptr)
    /\ UNCHANGED <<blob, blob_kind, step, r_p, loc, err, oob, snap, pre,
                   build, hc, issued, route>>

HNext ==
    \/ \E nr \in Installed : GuestEcall(nr)
    \/ \E op \in ShimOps : ShimCall(op)
    \/ HostComplete

HSpec == HInit /\ [][HNext]_vars

\* a host primitive that was called eventually returns
HFairSpec == HSpec /\ WF_vars(HostComplete)

(***************************************************************************)
(* The guest shim as a state machine: a guest program calls the libc       *)
(* functions the shim replaces, in a guest memory large enough for the     *)
(* longest copy the shim makes itself.                                     *)
(***************************************************************************)
ShimArenaSize == 1040

ShimCalls == 1

ShimArena ==
    [i \in 1..ShimArenaSize |->
        IF i <= HArenaSize THEN HArena[i] ELSE ((i - 1) % 251) + 1]

ShimMachine == [HMachine EXCEPT !.arena = ShimArena]

\* dest, src, n of the memmove calls of the guest program: ranges apart and
\* overlapping, dest below, at and above src, lengths around the threshold
MemmoveArgs ==
    {<<8, 40, 4>>, <<40, 8, 4>>, <<8, 10, 4>>, <<10, 8, 4>>, <<24, 24, 3>>,
     <<40, 8, 0>>, <<10, 8, 1024>>, <<10, 8, 1025>>}

ShimInit ==
    /\ live = ShimMachine
    /\ blob = << >>
    /\ blob_kind = "none"
    /\ step = "idle"
    /\ r_p = 0
    /\ loc = << >>
    /\ err = ""
    /\ oob = FALSE
    /\ snap = << >>
    /\ pre = << >>
    /\ build \in Builds
    /\ ctx = "running"
    /\ hc = NoCall
    /\ issued = 0
    /\ completed = 0
    /\ prims = << >>
    /\ nresults = 0
    /\ badptr = FALSE
    /\ route = NoRoute

\* a libc function of the shim that is a single vh_ecall
ShimEcall(op, r) ==
    /\ route' = [op |-> op, fd |-> 0, via |-> r.via, nr |-> r.nr,
                 args |-> r.args, ret |-> 0]
    /\ Dispatch(r.nr, r.args)
    /\ UNCHANGED <<blob, blob_kind, step, r_p, loc, err, oob, snap, pre, build>>

ShimMemmove ==
    /\ ContextFree(ctx)
    /\ issued < ShimCalls
    /\ \E a \in MemmoveArgs :
        LET r == shim_memmove(live.arena, a[1], a[2], a[3])
        IN  IF r.via = "ecall"
            THEN /\ route' = [op |-> "memmove", fd |-> 0, via |-> r.via,
                              nr |-> r.nr, args |-> r.args, ret |-> 0]
                 /\ Dispatch(r.nr, r.args)
            ELSE /\ route' = [op |-> "memmove", fd |-> 0, via |-> r.via,
                              nr |-> r.nr, args |-> r.args, ret |-> r.ret]
                 /\ live' = [live EXCEPT !.arena = r.arena]
                 /\ issued' = issued + 1 /\ completed' = completed + 1
                 /\ hc' = NoCall /\ prims' = << >> /\ nresults' = 0
                 /\ badptr' = FALSE
                 /\ UNCHANGED ctx
    /\ UNCHANGED <<blob, blob_kind, step, r_p, loc, err, oob, snap, pre, build>>

ShimGettimeofday ==
    /\ issued < ShimCalls
    /\ \E a \in EcallArgs(704) :
        ShimEcall("gettimeofday", shim_gettimeofday(a[1]))

ShimGetrandom ==
    /\ issued < ShimCalls
    /\ \E a \in EcallArgs(705) :
        ShimEcall("getrandom", shim_getrandom(a[1], a[2]))

ShimConnect ==
    /\ issued < ShimCalls
    /\ \E a \in EcallArgs(800) :
        ShimEcall("connect", shim_connect(a[1], a[2], a[3]))

ShimGetaddrinfo ==
    /\ issued < ShimCalls
    /\ \E a \in EcallArgs(801) :
        ShimEcall("getaddrinfo", shim_getaddrinfo(a[1], a[2], a[3], a[4]))

ShimDescriptorCall(op) == issued < ShimCalls /\ ShimCall(op)

ShimNext ==
    \/ ShimMemmove
    \/ ShimGettimeofday
    \/ ShimGetrandom
    \/ ShimConnect
    \/ ShimGetaddrinfo
    \/ \E op \in ShimOps : ShimDescriptorCall(op)
    \/ HostComplete

ShimSpec == ShimInit /\ [][ShimNext]_vars

(***************************************************************************)
(* Properties.                                                             *)
(***************************************************************************)
\* length of the part of the saved blob that precedes the chunk stream
MetaLen == Len(SaveMeta(snap, "asc"))

Finished == step \in {"done", "failed", "crashed"}

\* the fields of the live state that the round trip is about
Captured(m) ==
    [ regs |-> m.regs, fregs |-> m.fregs, fcsr |-> m.fcsr, pc |-> m.pc,
      mmap_address |-> m.mmap_address, ctx |-> m.ctx,
      g_next_pid |-> m.g_next_pid, g_next_epoll_fd |-> m.g_next_epoll_fd,
      g_epoll_instances |-> m.g_epoll_instances,
      g_eventfd_counters |-> m.g_eventfd_counters,
      arena |-> m.arena ]

\* C1: loading an unmodified save(S) into any machine T of the same arena
\* size succeeds, and afterwards the registers, FP registers, FP status, PC,
\* mmap address, ExecContext, the two counters, the epoll and eventfd
\* mappings and every arena byte are those of S.
C1_RoundTrip ==
    blob_kind = "saved" =>
        /\ step \notin {"failed", "crashed"}
        /\ step = "done" => Captured(live) = Captured(snap)

C1_Witness ==
    /\ blob_kind = "saved" /\ step = "done"
    /\ pre.regs # snap.regs /\ pre.ctx # snap.ctx
    /\ DOMAIN snap.g_epoll_instances # {}
    /\ DOMAIN pre.g_epoll_instances \ DOMAIN snap.g_epoll_instances # {}
    /\ pre.g_eventfd_counters # snap.g_eventfd_counters
    /\ \E i \in 1..arena_size : pre.arena[i] # 0 /\ snap.arena[i] = 0
    /\ \E i \in 1..arena_size : snap.arena[i] # 0

\* the blob carries a tag or a version other than the expected one
BadHeader(b) ==
    /\ Len(b) >= 12
    /\ SubSeq(b, 1, 8) # MAGIC \/ FromLE(SubSeq(b, 9, 12)) # VERSION

\* C2: load of a blob with a wrong tag or a wrong version fails and leaves
\* every piece of live state as it was before the call.
C2_HeaderRejected ==
    (BadHeader(blob) /\ step \notin {"idle", "header"}) =>
        step = "failed" /\ live = pre

C2_Witness ==
    /\ blob_kind = "badversion" /\ step = "failed"
    /\ err = "unsupported version"
    /\ live = pre /\ Captured(pre) # Captured(snap)

\* C3: a blob that is cut short before the chunk stream fails with all live
\* state unchanged (nothing live is written while the sections are parsed).
C3_StagedParse ==
    (blob_kind = "truncated" /\ Len(blob) < MetaLen /\ step = "failed") =>
        live = pre

\* C4: a blob whose chunk stream ends without a sentinel record does not
\* load successfully.
C4_MissingSentinelFails ==
    (blob_kind = "truncated" /\ Len(blob) >= MetaLen) => step # "done"

\* C5: when load fails on a cut chunk stream, the arena, the emulated-kernel
\* state, the CPU state, the ExecContext and the resume flag are what they
\* were before the call.
C5_TruncationDiscards ==
    (blob_kind = "truncated" /\ Len(blob) >= MetaLen /\ step = "failed") =>
        /\ Captured(live) = Captured(pre)
        /\ live.g_sched = pre.g_sched
        /\ live.g_waiting_for_stdin = pre.g_waiting_for_stdin

\* C6: whenever a step of load changes an arena byte, the cache of decoded
\* segments has already been invalidated.
C6_EvictBeforeArenaWrite ==
    [][(step # "idle" /\ live'.arena # live.arena) => live.exec_segments = {}]_vars

C6_Witness ==
    /\ step = "chunks"
    /\ pre.exec_segments # {}
    /\ live.exec_segments = {}
    /\ live.arena # pre.arena
    /\ live.arena # Zeros(arena_size)

\* the arena a stream of RecA, one bad record and RecB must produce
CraftedArena(size) == CopyChunk(CopyChunk(Zeros(size), 0, <<171, 205>>), size - 1, <<239>>)

\* C7: with one record whose offset+length exceeds the arena size in the
\* stream, load completes, writes nothing of that record and applies the
\* valid records before and after it.
C7_BadRecordSkipped ==
    (blob_kind = "crafted" /\ Finished) =>
        /\ step = "done"
        /\ ~oob
        /\ live.arena = CraftedArena(arena_size)

\* C8: after a successful load every page of the blob's executable page list
\* is readable and executable and not writable.
C8_ExecPagesRestored ==
    step = "done" =>
        \A pn \in ExecPagesOf(snap.pages) :
            /\ pn \in DOMAIN live.pages
            /\ live.pages[pn].read /\ live.pages[pn].exec /\ ~live.pages[pn].write

C8_Witness ==
    /\ step = "done"
    /\ \E pn \in ExecPagesOf(snap.pages) : snap.pages[pn].write
    /\ \E pn \in ExecPagesOf(snap.pages) : pre.pages[pn].write /\ ~pre.pages[pn].exec

\* C9: after loading save(S) into T the executable pages are exactly those
\* of S.
C9_ExecSetExact ==
    (blob_kind = "saved" /\ step = "done") =>
        ExecPagesOf(live.pages) = ExecPagesOf(snap.pages)

\* the records of a chunk stream that starts at byte position p of b, up to
\* and including the first sentinel record
RECURSIVE StreamRecords(_, _)
StreamRecords(b, p) ==
    IF ~Has(b, p, 16)
    THEN <<[kind |-> "short", off |-> 0, len |-> 0, data |-> << >>, end |-> p]>>
    ELSE IF Rd(b, p, 8) = SENTINEL_ADDR
    THEN <<[kind |-> "sentinel", off |-> 0, len |-> FromLE(Rd(b, p + 8, 8)),
            data |-> << >>, end |-> p + 16]>>
    ELSE LET off == FromLE(Rd(b, p, 8))
             len == FromLE(Rd(b, p + 8, 8))
         IN  IF ~Has(b, p + 16, len)
             THEN <<[kind |-> "short", off |-> off, len |-> len, data |-> << >>,
                     end |-> p]>>
             ELSE <<[kind |-> "chunk", off |-> off, len |-> len,
                     data |-> Rd(b, p + 16, len), end |-> p + 16 + len]>>
                  \o StreamRecords(b, p + 16 + len)

\* length of the window of an arena of the given size that starts at w
WindowLen(w, size) == IF w + CHUNK_SIZE <= size THEN CHUNK_SIZE ELSE size - w

\* C10: the chunk stream written by save has a record for a window exactly
\* when the window holds a non-zero byte; offsets are multiples of the
\* window length and strictly ascending; every record but possibly the last
\* has the full window length; each record carries its whole window; the
\* stream ends with exactly one sentinel record of length 0.
C10_SparseStream ==
    blob_kind = "saved" =>
        LET recs == StreamRecords(blob, MetaLen)
            n == Len(recs)
            size == Len(snap.arena)
        IN  /\ recs[n].kind = "sentinel" /\ recs[n].len = 0 /\ recs[n].end = Len(blob)
            /\ \A i \in 1..(n - 1) :
                  /\ recs[i].kind = "chunk"
                  /\ recs[i].off % CHUNK_SIZE = 0
                  /\ recs[i].off < size
                  /\ recs[i].len = WindowLen(recs[i].off, size)
                  /\ recs[i].data = SubSeq(snap.arena, recs[i].off + 1,
                                           recs[i].off + recs[i].len)
                  /\ i < n - 1 => /\ recs[i].len = CHUNK_SIZE
                                  /\ recs[i].off < recs[i + 1].off
            /\ \A w \in {x \in 0..(size - 1) : x % CHUNK_SIZE = 0} :
                  (\E i \in 1..(n - 1) : recs[i].off = w)
                  <=> (\E j \in 1..WindowLen(w, size) : snap.arena[w + j] # 0)

C10_Witness ==
    /\ blob_kind = "saved"
    /\ LET recs == StreamRecords(blob, MetaLen)
           n == Len(recs)
       IN  /\ n >= 3
           /\ recs[1].off > 0
           /\ recs[n - 1].len < CHUNK_SIZE

AllZero(bytes) == \A i \in 1..Len(bytes) : bytes[i] = 0

\* C11: an all-zero arena is saved as a chunk stream holding the sentinel
\* record only, and loading that blob leaves every byte of the destination
\* arena zero, whatever it held before.
C11_ZeroArena ==
    (blob_kind = "saved" /\ AllZero(snap.arena)) =>
        /\ SubSeq(blob, MetaLen + 1, Len(blob)) = SENTINEL_ADDR \o <<0, 0, 0, 0, 0, 0, 0, 0>>
        /\ step = "done" => AllZero(live.arena)

C11_Witness ==
    /\ blob_kind = "saved" /\ step = "done"
    /\ AllZero(snap.arena)
    /\ Len(pre.arena) > 2 * CHUNK_SIZE
    /\ ~AllZero(SubSeq(pre.arena, CHUNK_SIZE + 1, 2 * CHUNK_SIZE))
    /\ pre.arena[Len(pre.arena)] # 0

\* C12: when the arena size is not a multiple of the window length and the
\* tail holds a non-zero byte, the tail is the last record before the
\* sentinel, at offset floor(size / window) * window with length
\* size mod window, and no other record reaches into it.
C12_TailOnce ==
    LET size == Len(snap.arena)
        tail_offset == (size \div CHUNK_SIZE) * CHUNK_SIZE
    IN  (blob_kind = "saved" /\ size % CHUNK_SIZE # 0
         /\ ~AllZero(SubSeq(snap.arena, tail_offset + 1, size))) =>
            LET recs == StreamRecords(blob, MetaLen)
                n == Len(recs)
            IN  /\ n >= 2
                /\ recs[n].kind = "sentinel"
                /\ recs[n - 1].kind = "chunk"
                /\ recs[n - 1].off = tail_offset
                /\ recs[n - 1].len = size % CHUNK_SIZE
                /\ recs[n - 1].data = SubSeq(snap.arena, tail_offset + 1, size)
                /\ \A i \in 1..(n - 2) : recs[i].off + recs[i].len <= tail_offset

C12_Witness ==
    /\ blob_kind = "saved"
    /\ Len(snap.arena) < CHUNK_SIZE
    /\ ~AllZero(snap.arena)
    /\ Len(StreamRecords(blob, MetaLen)) = 2

\* C20: save_checkpoint leaves the whole live state as it found it.
C20_SaveReadsOnly ==
    [][(blob_kind = "none" /\ blob_kind' = "saved") => live' = live]_vars

C20_Witness ==
    /\ blob_kind = "saved" /\ step = "idle"
    /\ live = snap
    /\ DOMAIN live.g_epoll_instances # {}
    /\ DOMAIN live.g_eventfd_counters # {}
    /\ live.exec_segments # {}
    /\ ~AllZero(live.arena)


(***************************************************************************)
(* Properties of the guest shim and of the hypercall harness (HSpec).      *)
(***************************************************************************)
StorageBand == 600..604

NetworkBand == 800..803

ComputeBand == {700, 703, 704, 705, 706, 708}

\* the storage hypercall that serves each descriptor operation
StorageCall(op) ==
    CASE op = "read" -> 602
      [] op = "write" -> 601
      [] op = "pread" -> 604
      [] op = "close" -> 603

Routed == route.op \in ShimOps

\* C18: in the shim's read, write, pread and close, descriptors 0, 1 and 2
\* go to the native system call and never to a hypercall, and a descriptor
\* of 3 or more that is neither in 500..599 nor 99 goes to the storage
\* hypercall of the operation (read 602, write 601, pread 604, close 603).
C18_FdRouting ==
    Routed =>
        /\ route.fd \in 0..2 => route.via = "native"
        /\ (route.fd >= 3 /\ route.fd \notin 500..599 /\ route.fd # 99) =>
              /\ route.via = "ecall"
              /\ route.nr = StorageCall(route.op)
              /\ hc.nr = route.nr

C18_Witness ==
    /\ route.op = "pread" /\ route.fd = 3
    /\ route.via = "ecall" /\ hc.nr = 604
    /\ ctx = "running" /\ nresults = 1

\* C19: in the shim's read, write, pread and close, a descriptor in
\* 500..599 goes to the networking band and never to the storage band.
C19_SocketFdRouting ==
    (Routed /\ route.fd \in 500..599) =>
        /\ route.via = "ecall"
        /\ route.nr \in NetworkBand
        /\ route.nr \notin StorageBand

\* the handler's host primitive has returned, and it reported failure
PrimFailed ==
    Len(prims) > 0 /\ prims[1].done /\ prims[1].ret < 0 /\ prims[1].host = NoTime

Result == live.regs[REG_A0 + 1]

\* C13: for every installed handler, when its host primitive reports
\* failure the handler returns normally, without unwinding, and the single
\* value it writes to the result register is negative.
C13_FailureIsNegative ==
    (PrimFailed /\ ~badptr) =>
        /\ ctx = "running"
        /\ nresults = 1
        /\ Result < 0


\* a pointer handed to a host primitive is a bounded host view of guest
\* memory, a literal null, or host-local storage
Translated(p) == p.kind \in {"view", "nullptr", "local"}

\* C14: every guest pointer is translated to a host view bounded by an
\* explicit length before a host primitive gets it; when the range is not
\* inside guest memory the handler writes an error result and invokes no
\* host primitive on that pointer; no handler passes an untranslated guest
\* address to a host primitive.
C14_PointersTranslated ==
    /\ \A i \in 1..Len(prims) : \A j \in 1..Len(prims[i].ptrs) :
           Translated(prims[i].ptrs[j])
    /\ badptr =>
           /\ ctx = "running"
           /\ nresults = 1
           /\ Result < 0


\* C15: at most one hypercall is outstanding per context, and hypercalls
\* complete in issue order: the handler of hypercall k has written its
\* result before hypercall k+1 is dispatched.
C15_OneOutstanding ==
    [][/\ issued' - completed' \in {0, 1}
       /\ issued' # issued =>
             /\ issued' = issued + 1
             /\ issued = completed
       /\ completed' # completed =>
             /\ completed' = issued'
             /\ nresults' = 1]_vars

C15_Witness ==
    /\ build = "emscripten"
    /\ issued = 2 /\ completed = 2
    /\ ctx = "running" /\ nresults = 1
    /\ Len(prims) = 1 /\ prims[1].prim \in AsyncPrims /\ prims[1].done


\* C17: a compute-band handler (700, 703, 704, 705, 706, 708) completes
\* without suspending and calls no suspending primitive; a networking-band
\* handler (800..803) that invokes its host primitive invokes only a
\* suspending one, js_net_proxy or js_dns_resolve.
C17_BandsAndSuspension ==
    /\ hc.nr \in ComputeBand =>
           /\ ctx # "suspended"
           /\ \A i \in 1..Len(prims) : prims[i].prim \notin AsyncPrims
    /\ hc.nr \in NetworkBand =>
           \A i \in 1..Len(prims) : prims[i].prim \in {"js_net_proxy", "js_dns_resolve"}

C17_Witness ==
    /\ build = "emscripten"
    /\ hc.nr = 801 /\ ctx = "suspended"
    /\ Len(prims) = 1 /\ prims[1].prim = "js_dns_resolve"
    /\ completed = 1


\* C16: every hypercall that suspends the context eventually resumes it
\* with a result written to the result register, provided the host
\* primitive eventually completes; a suspended call is never cancelled.
C16_SuspendedResumes ==
    /\ (ctx = "suspended") ~> (ctx = "running" /\ nresults = 1)
    /\ [][(ctx = "suspended" /\ ctx' # "suspended") =>
             /\ ctx' = "running" /\ nresults' = 1
             /\ hc' = hc /\ prims'[1].done
             /\ Result' = prims'[1].ret]_vars

C16_Witness ==
    /\ build = "emscripten"
    /\ hc.nr = 803 /\ issued = 1 /\ completed = 1
    /\ ctx = "running" /\ nresults = 1
    /\ prims[1].prim = "js_net_proxy" /\ prims[1].done /\ Result = prims[1].ret


(***************************************************************************)
(* Layout of the blob, order of the load, and the remaining properties of  *)
(* the harness and the shim.                                               *)
(***************************************************************************)
\* the bytes of the blob at [off, off + n)
At(off, n) == SubSeq(blob, off + 1, off + n)

\* header, CPU state and memory-management values: bytes 0..567 of the blob
FixedPrefix ==
    /\ At(0, 8) = MAGIC
    /\ At(8, 4) = LE(VERSION, 4)
    /\ At(12, 4) = Zeros(4)
    /\ At(16, 8) = LE(snap.pc, 8)
    /\ At(24, 4) = LE(snap.fcsr, 4)
    /\ At(28, 4) = Zeros(4)
    /\ \A i \in 1..32 : At(32 + 8 * (i - 1), 8) = LE(snap.regs[i], 8)
    /\ \A i \in 1..32 : At(288 + 8 * (i - 1), 8) = LE(snap.fregs[i], 8)
    /\ At(544, 8) = LE(snap.mmap_address, 8)
    /\ At(552, 8) = LE(snap.ctx.brk_base, 8)
    /\ At(560, 8) = LE(snap.ctx.brk_current, 8)

Loading == step \notin {"idle", "done", "failed", "crashed"}

PermsApplied == step \in {"cpu_regs", "cpu_jump", "mmap", "exec_ctx", "flag", "done"}

CpuRegs(m) == [regs |-> m.regs, fregs |-> m.fregs, fcsr |-> m.fcsr]

WithoutFlag(m) == [m EXCEPT !.g_waiting_for_stdin = FALSE]

\* C22: in a successful load the arena zero-fill and all chunk copies
\* finish before any executable-page permission is reapplied; the program
\* counter is written after every integer register, FP register and the FP
\* status word; the "resuming from restore" flag is set only after every
\* other field has been restored.  On a load that fails, the flag keeps its
\* previous value and the CPU registers and PC are unchanged.
C22_LoadOrder ==
    [][/\ (Loading /\ live'.arena # live.arena) =>
              /\ ~PermsApplied
              /\ live.pages = pre.pages
       /\ (Loading /\ live'.pages # live.pages) => step' = "cpu_regs"
       /\ (Loading /\ live'.pc # live.pc) =>
              /\ CpuRegs(live) = [regs |-> loc.int_regs, fregs |-> loc.fp_regs,
                                  fcsr |-> loc.fcsr]
              /\ CpuRegs(live') = CpuRegs(live)
       /\ (Loading /\ CpuRegs(live') # CpuRegs(live)) => live.pc = pre.pc
       /\ (Loading /\ step' # "done") =>
              live'.g_waiting_for_stdin = pre'.g_waiting_for_stdin
       /\ (Loading /\ step' = "done") =>
              /\ live'.g_waiting_for_stdin
              /\ WithoutFlag(live') = WithoutFlag(live)
       /\ step = "done" => live' = live
       /\ step' = "failed" =>
              /\ live'.g_waiting_for_stdin = pre'.g_waiting_for_stdin
              /\ CpuRegs(live') = CpuRegs(pre')
              /\ live'.pc = pre'.pc]_vars

C22_Witness ==
    /\ step = "done" /\ blob_kind = "saved"
    /\ live.arena # pre.arena
    /\ live.pages # pre.pages
    /\ CpuRegs(live) # CpuRegs(pre)
    /\ live.pc # pre.pc
    /\ ~pre.g_waiting_for_stdin /\ live.g_waiting_for_stdin


\* the handler of the current hypercall has returned
HandlerReturned == hc.nr \in Installed /\ ctx = "running"

\* C23: every handler invocation, on every path through the handler
\* (null or untranslatable pointers and non-zero primitive results
\* included), writes the guest result register exactly once and invokes
\* exactly one host primitive.
C23_OneResultOnePrimitive ==
    HandlerReturned =>
        /\ nresults = 1
        /\ Len(prims) = 1


\* [addr, addr + len) lies inside a guest memory of the given size
RangeOk(size, addr, len) == addr >= 0 /\ len >= 0 /\ addr + len <= size

\* C24: hypercall 703(dest, src, len) validates both ranges against guest
\* memory before any byte is copied; when both are valid the destination
\* range afterwards holds the bytes the source range held before the call,
\* also when the ranges overlap, no byte outside the destination range
\* changes, and the result register holds dest; when len is 0 nothing is
\* copied.
C24_Memmove703 ==
    [][(issued' = issued + 1 /\ hc'.nr = 703) =>
         LET dest == hc'.args[1]
             src  == hc'.args[2]
             len  == hc'.args[3]
             size == Len(live.arena)
             ok   == RangeOk(size, dest, len) /\ RangeOk(size, src, len)
         IN  /\ Len(live'.arena) = size
             /\ ok =>
                  /\ \A i \in 1..len : live'.arena[dest + i] = live.arena[src + i]
                  /\ \A j \in 1..size :
                        (j <= dest \/ j > dest + len) => live'.arena[j] = live.arena[j]
                  /\ Result' = dest
                  /\ ctx' = "running"
             /\ (~ok \/ len = 0) => live'.arena = live.arena]_vars

C24_Witness ==
    /\ hc.nr = 703 /\ hc.args = <<10, 8, 4, 0>>
    /\ issued = 1 /\ ctx = "running"
    /\ SubSeq(live.arena, 11, 14) = SubSeq(HArena, 9, 12)
    /\ live.arena # HArena
    /\ Result = 10


\* t mod 1000 and t div 1000 for a 64-bit t in little-endian bytes, by long
\* division from the most significant byte
RECURSIVE RemFrom(_, _)
RemFrom(t, i) == IF i > 8 THEN 0 ELSE (RemFrom(t, i + 1) * 256 + t[i]) % 1000

Seconds(t) == [i \in 1..8 |-> (RemFrom(t, i + 1) * 256 + t[i]) \div 1000]

Microseconds(t) == RemFrom(t, 1) * 1000

\* C25: hypercall 704(tv), for a non-null tv and a host time of ms >= 0
\* milliseconds, writes the 64-bit value ms div 1000 at tv+0 and the 64-bit
\* value (ms mod 1000)*1000 at tv+8, these 16 bytes and nothing else; for
\* tv = 0 it writes no guest memory; the result is 0.
C25_Gettimeofday704 ==
    [][(issued' = issued + 1 /\ hc'.nr = 704) =>
         LET tv == hc'.args[1]
         IN  /\ tv = 0 => (live'.arena = live.arena /\ ctx' = "running" /\ Result' = 0)
             /\ (tv # 0 /\ Len(prims') = 1 /\ prims'[1].host # NoTime) =>
                  /\ ctx' = "running"
                  /\ Result' = 0
                  /\ Len(live'.arena) = Len(live.arena)
                  /\ tv + 16 <= Len(live.arena)
                  /\ SubSeq(live'.arena, tv + 1, tv + 8) = Seconds(prims'[1].host)
                  /\ SubSeq(live'.arena, tv + 9, tv + 16) = LE(Microseconds(prims'[1].host), 8)
                  /\ \A j \in 1..Len(live.arena) :
                        (j <= tv \/ j > tv + 16) => live'.arena[j] = live.arena[j]]_vars


\* C26: in the shim's read and write, the reserved descriptor 99 is routed
\* to the structured-data entry of the compute band, hypercall 708, and
\* never to a storage-band or network-band hypercall.
C26_Fd99Routing ==
    (route.op \in {"read", "write"} /\ route.fd = 99) =>
        /\ route.via = "ecall"
        /\ route.nr = 708
        /\ route.nr \notin StorageBand \cup NetworkBand


\* C27: for every chunk record that load processes, bytes are written only
\* at arena offsets in [0, arena_size): no record, one whose 64-bit sum
\* offset+length wraps around to a value not above arena_size included,
\* causes a write outside the arena.
C27_WritesInsideArena ==
    /\ oob = FALSE
    /\ step # "crashed"
    /\ step # "idle" => Len(live.arena) = Len(pre.arena)


\* C28: a memmove call of the guest reaches the host as hypercall 703 only
\* when n > 1024; for n <= 1024 no hypercall is issued and the shim's own
\* byte loop acts as an overlap-safe move: afterwards the destination range
\* holds what the source range held before the call, every other byte is
\* unchanged and dest is returned.  Every hypercall the shim issues bears one
\* of the numbers 601-604, 703-705, 708, 800-803, each of which has a handler
\* installed by setup_vh_harness, and that handler is the one dispatched.
C28_ShimMemmove ==
    /\ [][(route'.op = "memmove" /\ issued' = issued + 1) =>
            LET dest == route'.args[1]
                src  == route'.args[2]
                n    == route'.args[3]
            IN  IF n > 1024
                THEN /\ route'.via = "ecall" /\ route'.nr = 703
                     /\ hc' = [nr |-> 703, args |-> <<dest, src, n, 0>>]
                ELSE /\ route'.via = "local" /\ hc' = NoCall
                     /\ route'.ret = dest
                     /\ Len(live'.arena) = Len(live.arena)
                     /\ \A j \in 1..Len(live.arena) :
                           live'.arena[j] =
                              IF j > dest /\ j <= dest + n
                              THEN live.arena[src + (j - dest)]
                              ELSE live.arena[j]]_vars
    /\ [](route.via = "ecall" =>
            /\ route.nr \in {601, 602, 603, 604, 703, 704, 705, 708,
                             800, 801, 802, 803}
            /\ route.nr \in Installed
            /\ hc.nr = route.nr)

\* the guest moved 1024 bytes two bytes upward inside its memory, the ranges
\* overlapping, without a hypercall
C28_Witness ==
    /\ route.op = "memmove" /\ route.via = "local"
    /\ route.args = <<10, 8, 1024, 0>> /\ route.ret = 10
    /\ issued = 1 /\ hc = NoCall
    /\ \A i \in 1..1024 : live.arena[10 + i] = ShimArena[8 + i]

====
